---- MODULE Spec2Model ----
(***************************************************************************)
(* Street-light controller, static/pi.py: the hardware loop (sensor        *)
(* sampling + automatic LDR control), the /control request handler and     *)
(* the clear_override threads it starts, all running as threads over the   *)
(* shared dictionaries manual_override and lights_data and the relay pins. *)
(*                                                                         *)
(* An operation's statements are separate steps that interleave freely     *)
(* with the other threads.  Time is counted in seconds and moves in steps  *)
(* of ClockStep, only between operations: requests arrive at multiples of  *)
(* ClockStep, and a clear_override sleep that has run its full length      *)
(* returns before the clock moves again.  The hardware loop's own sleep is *)
(* not timed: its next pass may start at any moment.                       *)
(***************************************************************************)
EXTENDS Integers, FiniteSets, Sequences, TLC

\* ---------------------------------------------------------------- constants
\* len(RELAY_PINS): the lights are light1..light4, loop indices 0..3.
NumLights == 4

\* time.sleep(30) in clear_override.
OVERRIDE_SECONDS == 30

\* The index read_ldr and auto_control_lights treat as the failed sensor.
FAILED_INDEX == 3

\* Concurrent /control requests (Flask handler threads).
MaxReqs == 2

\* clear_override threads alive at once (started or about to be started).
MaxTimers == 2

\* Seconds the clock moves in one step.
ClockStep == 10

Lights == 1..NumLights
Reqs == 1..MaxReqs

\* lux values: 0 = dark, 100 = bright, -1 = sensor failed.
LUX_DARK == 0
LUX_BRIGHT == 100
LUX_FAILED == -1

VARIABLES
  manual_override,  \* manual_override["light<k>"], k in Lights
  status,           \* lights_data["light<k>"]["status"]: "ON" / "OFF"
  lux,              \* lights_data["light<k>"]["lux"]
  relay,            \* level last written to RELAY_PINS[k-1]: "HIGH" / "LOW"
  timers,           \* the clear_override threads, oldest first:
                    \*   [light, age, cmd] with age = seconds slept so far
                    \*   and cmd = the action of the request that started it
  hw_pc,            \* hardware_loop: where the thread is
  hw_i,             \* hardware_loop: loop index i (0..3) of the running loop
  hw_target,        \* auto_control_lights: the branch taken for light i
  ctl_pc,           \* control_light, per request thread: where the thread is
  ctl_light,        \* control_light: light_id of the request (0 = none)
  ctl_action,       \* control_light: action of the request
  answered,         \* the lights a success answer has been returned for
  main_pc           \* main: serving, or where handle_sigterm is

vars == <<manual_override, status, lux, relay, timers,
          hw_pc, hw_i, hw_target, ctl_pc, ctl_light, ctl_action, answered,
          main_pc>>

store == <<manual_override, status, lux, relay>>
hw == <<hw_pc, hw_i, hw_target>>
ctl == <<ctl_pc, ctl_light, ctl_action, answered>>

\* stop_event.is_set(): handle_sigterm sets the event first of all.
stop_event == main_pc # "serve"

\* ------------------------------------------------------------ initial state
\* lights_data with lux 100 for every light, light4 included.
DefaultLuxAllWorking(k) == LUX_BRIGHT

\* The "lux" entries of lights_data as the module defines them.
DefaultLux(k) == IF k = 4 THEN LUX_FAILED ELSE LUX_BRIGHT

\* Module level: manual_override all False, lights_data all "OFF" with lux
\* 100 (light4: -1), every relay pin driven LOW; no request, no timer; the
\* hardware thread is about to start its first pass.
Init ==
  /\ manual_override = [k \in Lights |-> FALSE]
  /\ status = [k \in Lights |-> "OFF"]
  /\ lux = [k \in Lights |-> DefaultLux(k)]
  /\ relay = [k \in Lights |-> "LOW"]
  /\ timers = <<>>
  /\ hw_pc = "read"
  /\ hw_i = 0
  /\ hw_target = "NONE"
  /\ ctl_pc = [r \in Reqs |-> "idle"]
  /\ ctl_light = [r \in Reqs |-> 0]
  /\ ctl_action = [r \in Reqs |-> "none"]
  /\ answered = {}
  /\ main_pc = "serve"

\* ------------------------------------------------------- hardware functions
\* GPIO.output level of turn_light_on / turn_light_off.
RelayLevel(st) == IF st = "ON" THEN "HIGH" ELSE "LOW"

\* turn_light_on / turn_light_off, first statement: GPIO.output(pin, level).
GpioOutput(k, st) == relay' = [relay EXCEPT ![k] = RelayLevel(st)]

\* The status store written for every light instead of light k alone.
StoreStatusAll(k, st) == status' = [j \in Lights |-> st]

\* turn_light_on / turn_light_off, second statement: the status store.
StoreStatus(k, st) == status' = [status EXCEPT ![k] = st]

\* What GPIO.input can do: return HIGH or LOW, or raise.
PinResults == {"HIGH", "LOW", "ERR"}

\* read_ldr whose except branch returns 0: a failed read counts as dark.
ReadLdrErrorAsDark(ldr_index, pin) ==
  IF ldr_index = FAILED_INDEX THEN LUX_FAILED
  ELSE IF 0 <= ldr_index /\ ldr_index < NumLights
       THEN CASE pin = "HIGH" -> LUX_BRIGHT
              [] OTHER -> LUX_DARK
       ELSE LUX_FAILED

\* read_ldr without the special case of index 3: the pin of light 4 is
\* read like the others.
ReadLdrAllWired(ldr_index, pin) ==
  IF 0 <= ldr_index /\ ldr_index < NumLights
  THEN CASE pin = "HIGH" -> LUX_BRIGHT
         [] pin = "LOW" -> LUX_DARK
         [] OTHER -> LUX_FAILED
  ELSE LUX_FAILED

\* read_ldr(ldr_index), given what GPIO.input does when it is called:
\* index 3 returns -1 without reading; the others 100 for HIGH, 0 for LOW
\* and -1 from the except branch.
ReadLdr(ldr_index, pin) ==
  IF ldr_index = FAILED_INDEX THEN LUX_FAILED
  ELSE IF 0 <= ldr_index /\ ldr_index < NumLights
       THEN CASE pin = "HIGH" -> LUX_BRIGHT
              [] pin = "LOW" -> LUX_DARK
              [] OTHER -> LUX_FAILED
       ELSE LUX_FAILED

\* The if/elif with the sensor polarity swapped: on when bright, off when
\* dark.
DecideSwapped(l, current_status) ==
  IF l > 0 /\ current_status = "OFF" THEN "ON"
  ELSE IF l = 0 /\ current_status = "ON" THEN "OFF"
  ELSE "NONE"

\* The if/elif without its tests of the current status: the relay is
\* written on every pass.
DecideAlwaysWrites(l, current_status) ==
  IF l = 0 THEN "ON"
  ELSE IF l > 0 THEN "OFF"
  ELSE "NONE"

\* The if/elif with its second test written `lux != 0`: a failed reading
\* (-1) would count as bright.
DecideFailedAsBright(l, current_status) ==
  IF l = 0 /\ current_status = "OFF" THEN "ON"
  ELSE IF l # 0 /\ current_status = "ON" THEN "OFF"
  ELSE "NONE"

\* The if/elif with its first test written `lux <= 0`: a failed reading
\* (-1) would count as dark.
DecideFailedAsDark(l, current_status) ==
  IF l <= 0 /\ current_status = "OFF" THEN "ON"
  ELSE IF l > 0 /\ current_status = "ON" THEN "OFF"
  ELSE "NONE"

\* The if/elif of auto_control_lights: the status it goes on to set, or
\* "NONE" when neither branch is taken.
Decide(l, current_status) ==
  IF l = 0 /\ current_status = "OFF" THEN "ON"
  ELSE IF l > 0 /\ current_status = "ON" THEN "OFF"
  ELSE "NONE"

\* ------------------------------------------------------------ hardware loop
\* The loop index after iteration i of a `for i in range(4)` loop.
NextIndex(i) == IF i + 1 < NumLights THEN i + 1 ELSE 0

\* update_sensors: lights_data[light i+1]["lux"] = read_ldr(i) for i in
\* range(4), given what each GPIO.input call does.  lux is written and
\* read by this thread alone, so the four stores are one step.  The thread
\* then enters auto_control_lights (AUTO_MODE is True).
UpdateSensors(pins) ==
  /\ hw_pc = "read"
  /\ lux' = [k \in Lights |-> ReadLdr(k - 1, pins[k - 1])]
  /\ hw_i' = 0
  /\ hw_pc' = "check"
  /\ UNCHANGED <<manual_override, status, relay, timers, hw_target, ctl, main_pc>>

\* auto_control_lights leaves light i: the next iteration, or (after
\* print_status) time.sleep(SAMPLE_INTERVAL).
HwNextLight ==
  /\ hw_i' = NextIndex(hw_i)
  /\ hw_pc' = IF hw_i + 1 < NumLights THEN "check" ELSE "sleep"
  /\ hw_target' = "NONE"

\* The loop without its manual_override test.
SkipFailedOnly(i) == i = FAILED_INDEX

\* The two `continue` tests of auto_control_lights for light i+1.
SkipLight(i) == manual_override[i + 1] \/ i = FAILED_INDEX

\* auto_control_lights, top of one iteration: skip the light when its
\* manual override is set or when it is light 4.
AutoCheck ==
  /\ hw_pc = "check"
  /\ IF SkipLight(hw_i)
     THEN HwNextLight
     ELSE hw_pc' = "load" /\ UNCHANGED <<hw_i, hw_target>>
  /\ UNCHANGED <<store, timers, ctl, main_pc>>

\* auto_control_lights: lux and current_status are read and the if/elif is
\* evaluated on them.
AutoDecide ==
  /\ hw_pc = "load"
  /\ LET t == Decide(lux[hw_i + 1], status[hw_i + 1])
     IN IF t = "NONE"
        THEN HwNextLight
        ELSE hw_pc' = "gpio" /\ hw_target' = t /\ UNCHANGED hw_i
  /\ UNCHANGED <<store, timers, ctl, main_pc>>

\* turn_light_on/off(i, "auto-LDR"): the GPIO.output call.
AutoGpio ==
  /\ hw_pc = "gpio"
  /\ GpioOutput(hw_i + 1, hw_target)
  /\ hw_pc' = "status"
  /\ UNCHANGED <<manual_override, status, lux, timers, hw_i, hw_target, ctl, main_pc>>

\* turn_light_on/off(i, "auto-LDR"): the status store; the iteration ends.
AutoStatus ==
  /\ hw_pc = "status"
  /\ StoreStatus(hw_i + 1, hw_target)
  /\ HwNextLight
  /\ UNCHANGED <<manual_override, lux, relay, timers, ctl, main_pc>>

\* time.sleep(SAMPLE_INTERVAL) returns and the loop tests stop_event: the
\* next pass starts, or the thread returns.
HwWake ==
  /\ hw_pc = "sleep"
  /\ hw_pc' = IF stop_event THEN "stopped" ELSE "read"
  /\ UNCHANGED <<store, timers, hw_i, hw_target, ctl, main_pc>>

\* ---------------------------------------------------------- control_light
\* A range test that lets light_id 5 through.
ValidLightUpTo5(light_id) == ~(light_id < 1 \/ light_id > 5)

\* The first test of control_light: light_id in 1..4.
ValidLight(light_id) == ~(light_id < 1 \/ light_id > 4)

\* An action test that lets "toggle" through.
ValidActionOrToggle(action) == action \in {"on", "off", "toggle"}

\* The second test of control_light: action on or off.
ValidAction(action) == action \in {"on", "off"}

\* The validation of control_light: light_id in 1..4 and action on/off.
ValidCommand(light_id, action) == ValidLight(light_id) /\ ValidAction(action)

\* The status a valid action asks for.
ActionStatus(action) == IF action = "on" THEN "ON" ELSE "OFF"

\* clear_override threads alive or about to be started.
TimersInUse == Len(timers) + Cardinality({r \in Reqs : ctl_pc[r] \in {"override", "spawn"}})

\* A request arrives and gets a handler thread (the free one of lowest
\* number: the threads are interchangeable); its JSON is parsed and
\* validated, light_id first, then action.
Receive(r, light_id, action) ==
  /\ ctl_pc[r] = "idle"
  /\ \A q \in Reqs : q < r => ctl_pc[q] # "idle"
  /\ IF ~ValidLight(light_id)
     THEN /\ ctl_pc' = [ctl_pc EXCEPT ![r] = "reject_id"]
          /\ UNCHANGED <<ctl_light, ctl_action>>
     ELSE IF ~ValidAction(action)
     THEN /\ ctl_pc' = [ctl_pc EXCEPT ![r] = "reject_action"]
          /\ UNCHANGED <<ctl_light, ctl_action>>
     ELSE /\ TimersInUse < MaxTimers
          /\ ctl_pc' = [ctl_pc EXCEPT ![r] = "override"]
          /\ ctl_light' = [ctl_light EXCEPT ![r] = light_id]
          /\ ctl_action' = [ctl_action EXCEPT ![r] = action]
  /\ UNCHANGED <<store, timers, hw, answered, main_pc>>

\* The request thread is done: its slot is free again.
CtlReturn(r) ==
  /\ ctl_pc' = [ctl_pc EXCEPT ![r] = "idle"]
  /\ ctl_light' = [ctl_light EXCEPT ![r] = 0]
  /\ ctl_action' = [ctl_action EXCEPT ![r] = "none"]

\* The 400 answer to an invalid light_id, or to an invalid action.
Reject(r) ==
  /\ ctl_pc[r] \in {"reject_id", "reject_action"}
  /\ CtlReturn(r)
  /\ UNCHANGED <<store, timers, hw, answered, main_pc>>

\* manual_override[light_key] = True
SetOverride(r) ==
  /\ ctl_pc[r] = "override"
  /\ manual_override' = [manual_override EXCEPT ![ctl_light[r]] = TRUE]
  /\ ctl_pc' = [ctl_pc EXCEPT ![r] = "spawn"]
  /\ UNCHANGED <<status, lux, relay, timers, hw, ctl_light, ctl_action, answered, main_pc>>

\* threading.Thread(target=clear_override).start(): the new thread begins
\* its time.sleep(30).
StartTimer(r) ==
  /\ ctl_pc[r] = "spawn"
  /\ timers' = Append(timers, [light |-> ctl_light[r], age |-> 0, cmd |-> ctl_action[r]])
  /\ ctl_pc' = [ctl_pc EXCEPT ![r] = "gpio"]
  /\ UNCHANGED <<store, hw, ctl_light, ctl_action, answered, main_pc>>

\* turn_light_on/off(light_id - 1, "web-button"): the GPIO.output call.
CtlGpio(r) ==
  /\ ctl_pc[r] = "gpio"
  /\ GpioOutput(ctl_light[r], ActionStatus(ctl_action[r]))
  /\ ctl_pc' = [ctl_pc EXCEPT ![r] = "status"]
  /\ UNCHANGED <<manual_override, status, lux, timers, hw, ctl_light, ctl_action, answered, main_pc>>

\* turn_light_on/off(light_id - 1, "web-button"): the status store.
CtlStatus(r) ==
  /\ ctl_pc[r] = "status"
  /\ StoreStatus(ctl_light[r], ActionStatus(ctl_action[r]))
  /\ ctl_pc' = [ctl_pc EXCEPT ![r] = "respond"]
  /\ UNCHANGED <<manual_override, lux, relay, timers, hw, ctl_light, ctl_action, answered, main_pc>>

\* new_status of the success answer: the status in lights_data when the
\* answer is built.
NewStatus(r) == status[ctl_light[r]]

\* The success answer (new_status read from lights_data) is returned.
Respond(r) ==
  /\ ctl_pc[r] = "respond"
  /\ answered' = answered \cup {ctl_light[r]}
  /\ CtlReturn(r)
  /\ UNCHANGED <<store, timers, hw, main_pc>>

\* ---------------------------------------------------------- clear_override
\* A sleep that returns one clock step short of the 30 seconds.
TimerDueEarly(t) == t.age + ClockStep >= OVERRIDE_SECONDS

\* time.sleep(30) of a clear_override thread has returned.
TimerDue(t) == t.age >= OVERRIDE_SECONDS

\* timers without its n-th entry.
RemoveAt(s, n) == [j \in 1..(Len(s) - 1) |-> IF j < n THEN s[j] ELSE s[j + 1]]

\* A clear_override that writes True where it should write False.
OverrideSetAgain(mo, t) == [mo EXCEPT ![t.light] = TRUE]

\* A clear_override that ends without writing the flag.
OverrideKept(mo, t) == mo

\* What clear_override writes after its sleep, for its light.
ClearedOverride(mo, t) == [mo EXCEPT ![t.light] = FALSE]

\* clear_override after its sleep: manual_override[light_key] = False, and
\* the thread ends.
ClearOverride(n) ==
  /\ n \in 1..Len(timers)
  /\ TimerDue(timers[n])
  /\ manual_override' = ClearedOverride(manual_override, timers[n])
  /\ timers' = RemoveAt(timers, n)
  /\ UNCHANGED <<status, lux, relay, hw, ctl, main_pc>>

\* ------------------------------------------------------------ who is where
\* The requests for light k that are being handled (validated, not yet
\* answered).
InFlight(k) ==
  {r \in Reqs : ctl_light[r] = k /\ ctl_pc[r] \in {"override", "spawn", "gpio", "status", "respond"}}

\* The requests for light k that have still to store the status they ask for.
ToStore(k) ==
  {r \in Reqs : ctl_light[r] = k /\ ctl_pc[r] \in {"override", "spawn", "gpio", "status"}}

\* The clear_override threads of light k (their places in timers).
TimersOn(k) == {n \in 1..Len(timers) : timers[n].light = k}

\* Thread t is a clear_override thread of light k.
IsOn(k, t) == t.light = k

\* auto_control_lights is inside its iteration for light k, past the two
\* `continue` tests.
HwOn(k) == hw_i + 1 = k /\ hw_pc \in {"load", "gpio", "status"}

\* auto_control_lights has taken a branch for light k and is inside
\* turn_light_on / turn_light_off.
HwActing(k) == hw_i + 1 = k /\ hw_pc \in {"gpio", "status"}

\* -------------------------------------------------------------------- clock
\* No request or hardware pass is in the middle of its statements.
Quiescent ==
  /\ hw_pc \in {"sleep", "dead"}
  /\ \A r \in Reqs : ctl_pc[r] = "idle"

\* ClockStep seconds pass for every sleeping clear_override thread.  A
\* sleep that is over returns first.
Advance ==
  /\ Quiescent
  /\ \A n \in 1..Len(timers) : ~TimerDue(timers[n])
  /\ timers # <<>>
  /\ timers' = [n \in 1..Len(timers) |-> [timers[n] EXCEPT !.age = @ + ClockStep]]
  /\ UNCHANGED <<store, hw, ctl, main_pc>>

\* ------------------------------------------------------------ specification
\* What the requests carry: light 1 (a working sensor) or light 4 (the
\* failed one), 0 and 5 (out of range); on, off, or no action at all.
LightIds == {0, 1, 4, 5}
Actions == {"on", "off", "toggle"}

\* What the LDR pins do when read: the pin of light 1 may give any result,
\* the others are in daylight.
Pins == {pins \in [0..(NumLights - 1) -> PinResults] :
           \A i \in 1..(NumLights - 1) : pins[i] = "HIGH"}

Next ==
  \/ \E pins \in Pins : UpdateSensors(pins)
  \/ AutoCheck
  \/ AutoDecide
  \/ AutoGpio
  \/ AutoStatus
  \/ HwWake
  \/ \E r \in Reqs, light_id \in LightIds, action \in Actions : Receive(r, light_id, action)
  \/ \E r \in Reqs : Reject(r)
  \/ \E r \in Reqs : SetOverride(r)
  \/ \E r \in Reqs : StartTimer(r)
  \/ \E r \in Reqs : CtlGpio(r)
  \/ \E r \in Reqs : CtlStatus(r)
  \/ \E r \in Reqs : Respond(r)
  \/ \E n \in 1..MaxTimers : ClearOverride(n)
  \/ Advance

\* Every thread over the shared state, requests handled concurrently.
Spec == Init /\ [][Next]_vars

\* The same threads when the requests come one after the other and work on
\* one light at a time: a request arrives only when no other is being
\* handled, and a valid one only when no override of another light is
\* running.
ReceiveSeq(r, light_id, action) ==
  /\ \A q \in Reqs : ctl_pc[q] = "idle"
  /\ ValidCommand(light_id, action)
       => \A n \in 1..Len(timers) : timers[n].light = light_id
  /\ Receive(r, light_id, action)

NextSeq ==
  \/ \E pins \in Pins : UpdateSensors(pins)
  \/ AutoCheck
  \/ AutoDecide
  \/ AutoGpio
  \/ AutoStatus
  \/ HwWake
  \/ \E r \in Reqs, light_id \in LightIds, action \in Actions : ReceiveSeq(r, light_id, action)
  \/ \E r \in Reqs : Reject(r)
  \/ \E r \in Reqs : SetOverride(r)
  \/ \E r \in Reqs : StartTimer(r)
  \/ \E r \in Reqs : CtlGpio(r)
  \/ \E r \in Reqs : CtlStatus(r)
  \/ \E r \in Reqs : Respond(r)
  \/ \E n \in 1..MaxTimers : ClearOverride(n)
  \/ Advance

SpecSeq == Init /\ [][NextSeq]_vars

\* ------------------------------------------------------------------ claims
\* The clear_override threads of light k in a value tm of timers, oldest
\* first.
TimerSeqOf(tm, k) == SelectSeq(tm, LAMBDA t : IsOn(k, t))

\* The step ends the clear_override thread at place n of timers.
Ends(n) == n \in 1..Len(timers) /\ timers' = RemoveAt(timers, n)

\* C1: a step that takes a light's override from set to clear is the end of
\* the clear_override thread of the most recent request for that light: no
\* later request for the light has set the override again, be its own
\* thread started already or not.
C1_StaleTimerGuard ==
  [][\A k \in Lights :
       (manual_override[k] /\ ~manual_override'[k])
         => /\ \E n \in TimersOn(k) : Ends(n) /\ \A m \in TimersOn(k) : m <= n
            /\ ~\E r \in Reqs : ctl_light[r] = k /\ ctl_pc[r] = "spawn"]_vars

\* C2: light k was sent "on" and then, before that override ran out, "off",
\* and both requests have been answered.  When the thread of the first
\* request ends while the second one's 30 seconds are still running, the
\* light is still overridden and its status is OFF.
C2_SecondDeadlineHolds ==
  [][\A k \in Lights :
       LET ts == TimerSeqOf(timers, k)
       IN (/\ Len(ts) = 2
           /\ ts[1].cmd = "on"
           /\ ts[2].cmd = "off"
           /\ ts[2].age < OVERRIDE_SECONDS
           /\ InFlight(k) = {}
           /\ TimerSeqOf(timers', k) = <<ts[2]>>)
          => (manual_override'[k] /\ status'[k] = "OFF")]_vars

\* C3: while the override of a light is set, a step changes the light's
\* status only if it is the status store of a request for that light.
C3_OverrideBlocksTick ==
  [][\A k \in Lights :
       (manual_override[k] /\ status'[k] # status[k])
         => \E r \in Reqs : /\ ctl_light[r] = k
                            /\ ctl_pc[r] = "status"
                            /\ ctl_pc'[r] = "respond"]_vars

\* C4: once a request has set the override of a light and stored the status
\* it asks for, the status store of a hardware pass that looked at the light
\* earlier does not change that status.
C4_InFlightTickKeepsSubmit ==
  [][\A k \in Lights :
       (/\ manual_override[k]
        /\ ToStore(k) = {}
        /\ hw_pc = "status" /\ hw_i + 1 = k /\ hw_pc' # "status")
         => status'[k] = status[k]]_vars

\* C5: the requests for light k that are being handled have all done their
\* writes, no older override of the light is running, and the hardware pass
\* is not inside its iteration for the light: then the record of the light
\* is what some serial order of those requests and the pass leaves, that is
\* override set and the status one of those requests asked for.
C5_Linearizable ==
  \A k \in Lights :
    (/\ InFlight(k) # {}
     /\ ToStore(k) = {}
     /\ ~HwOn(k)
     /\ Cardinality(TimersOn(k)) = Cardinality(InFlight(k))
     /\ \A n \in TimersOn(k) : ~TimerDue(timers[n]))
      => /\ manual_override[k]
         /\ status[k] \in {ActionStatus(ctl_action[r]) : r \in InFlight(k)}

\* C6: when no request for a light is being handled and the hardware pass
\* is not inside its iteration for it, the relay is on exactly when the
\* status is ON.
C6_RelayMatchesStatus ==
  \A k \in Lights :
    (InFlight(k) = {} /\ ~HwOn(k))
      => (relay[k] = "HIGH" <=> status[k] = "ON")

\* A step that changes the status of light k is the status store of a
\* request for k, and leaves the status that request asks for.
BySubmit(k) ==
  \E r \in Reqs : /\ ctl_light[r] = k
                  /\ ctl_pc[r] = "status"
                  /\ ctl_pc'[r] = "respond"
                  /\ status'[k] = ActionStatus(ctl_action[r])

C8_ExpiryReturnsToAuto ==
  /\ [](\A k \in Lights :
          manual_override[k]
            => \/ \E r \in Reqs : ctl_light[r] = k /\ ctl_pc[r] = "spawn"
               \/ \E n \in TimersOn(k) : timers[n].age < OVERRIDE_SECONDS + ClockStep)
  /\ [][\A k \in Lights :
          (/\ TimersOn(k) = {} /\ InFlight(k) = {}
           /\ k - 1 # FAILED_INDEX
           /\ hw_pc = "check" /\ hw_i + 1 = k /\ <<hw_pc, hw_i>>' # <<hw_pc, hw_i>>)
            => hw_pc' = "load" /\ hw_i' = hw_i]_vars

\* C8, the case: a request for light 1 was answered, its override has run
\* out with no other request, and the hardware pass is changing the status
\* of light 1.
C8_Witness ==
  /\ 1 \in answered /\ TimersOn(1) = {} /\ InFlight(1) = {}
  /\ ~manual_override[1]
  /\ hw_pc = "status" /\ hw_i = 0

\* C9: a step that clears a light's override is the end of a clear_override
\* thread of that light that has slept OVERRIDE_SECONDS or more.
C9_NeverEarly ==
  [][\A k \in Lights :
       (manual_override[k] /\ ~manual_override'[k])
         => \E n \in TimersOn(k) : Ends(n) /\ timers[n].age >= OVERRIDE_SECONDS]_vars

\* C9, the case: a request for light 4 was answered and its override has
\* been cleared by its thread.
C9_Witness ==
  /\ 4 \in answered /\ TimersOn(4) = {} /\ InFlight(4) = {}
  /\ ~manual_override[4]

\* C10: no light has two clear_override threads.
C10_OneTimerPerLight ==
  \A k \in Lights : Cardinality(TimersOn(k)) <= 1

\* Request r hands back its success answer in this step.
Returns(r) == ctl_pc[r] = "respond" /\ ctl_pc'[r] = "idle"

\* C11: in the state right after a successful request to turn a light on
\* returns, the light's status is ON and its manual override is set.
C11_RoundTrip ==
  [][\A r \in Reqs :
       (Returns(r) /\ ctl_action[r] = "on")
         => (status'[ctl_light[r]] = "ON" /\ manual_override'[ctl_light[r]])]_vars

\* The decision table of the policy: dark and off gives on, bright and on
\* gives off, anything else no change.
Reference(l, actuation) ==
  CASE l = LUX_DARK /\ actuation = "OFF" -> "ON"
    [] l = LUX_BRIGHT /\ actuation = "ON" -> "OFF"
    [] OTHER -> "NONE"

\* auto_control_lights leaves its if/elif for the light it is at.
Decides == hw_pc = "load" /\ hw_pc' # "load"

\* C12: for a dark or bright reading, the branch auto_control_lights takes
\* for a light is the one the decision table gives for the light's reading
\* and status: a write of ON, a write of OFF, or no write.
C12_DecisionMatchesReference ==
  [][(Decides /\ lux[hw_i + 1] \in {LUX_DARK, LUX_BRIGHT})
       => LET want == Reference(lux[hw_i + 1], status[hw_i + 1])
          IN IF want = "NONE"
             THEN hw_pc' # "gpio"
             ELSE hw_pc' = "gpio" /\ hw_target' = want /\ hw_i' = hw_i]_vars

\* The bright reading of light 1, found ON, has been decided: OFF.
C12_Witness ==
  /\ hw_pc = "gpio" /\ hw_i = 0 /\ hw_target = "OFF"
  /\ lux[1] = LUX_BRIGHT /\ status[1] = "ON"

\* The status of a light once decision target has been carried out.
AfterDecision(target, actuation) == IF target = "NONE" THEN actuation ELSE target

\* The status agrees with the reading: on in the dark, off in the light.
Matches(l, actuation) ==
  \/ l = LUX_DARK /\ actuation = "ON"
  \/ l = LUX_BRIGHT /\ actuation = "OFF"

\* C13: deciding again on the outcome of a decision, with the same reading,
\* asks for no write; and where the status already agrees with the reading,
\* auto_control_lights goes on to the next light without writing the relay
\* or the status.
C13_PolicyIdempotent ==
  /\ [](hw_pc = "load"
          => LET l == lux[hw_i + 1]
                 st == status[hw_i + 1]
             IN Decide(l, AfterDecision(Decide(l, st), st)) = "NONE")
  /\ [][(Decides /\ Matches(lux[hw_i + 1], status[hw_i + 1]))
          => (hw_pc' # "gpio" /\ hw_target' = "NONE"
              /\ relay' = relay /\ status' = status)]_vars

\* Light 1 was switched on by an earlier pass (no request was ever
\* answered), the reading is dark, and the if/elif is reached again.
C13_Witness ==
  /\ hw_pc = "load" /\ hw_i = 0
  /\ lux[1] = LUX_DARK /\ status[1] = "ON" /\ relay[1] = "HIGH"
  /\ answered = {} /\ timers = <<>> /\ \A r \in Reqs : ctl_pc[r] = "idle"

\* ------------------------------------------------- one pass, undisturbed
\* AUTO_MODE of the configuration.
AUTO_MODE == TRUE

\* turn_light_on / turn_light_off for light k, or neither: relay pin and
\* status of a pair rec = [status, relay].
TurnLight(rec, k, target) ==
  IF target = "NONE" THEN rec
  ELSE [status |-> [rec.status EXCEPT ![k] = target],
        relay |-> [rec.relay EXCEPT ![k] = RelayLevel(target)]]

\* The reading of another light than the one the loop is at.
ReadingOfFirst(lx, i) == lx[1]

\* lights_data[light_key]["lux"] for iteration i.
ReadingFor(lx, i) == lx[i + 1]

\* The iterations i, i+1, .. 3 of the loop of auto_control_lights, run
\* without interruption on readings lx.
RECURSIVE AutoControlLights(_, _, _)
AutoControlLights(rec, lx, i) ==
  IF i >= NumLights THEN rec
  ELSE AutoControlLights(
         IF SkipLight(i) THEN rec
         ELSE TurnLight(rec, i + 1, Decide(ReadingFor(lx, i), rec.status[i + 1])),
         lx, i + 1)

\* One iteration of hardware_loop while no other thread runs:
\* update_sensors, then auto_control_lights, then the sleep begins.
HardwarePass(pins) ==
  /\ hw_pc = "read"
  /\ LET lx == [k \in Lights |-> ReadLdr(k - 1, pins[k - 1])]
         now == [status |-> status, relay |-> relay]
         rec == IF AUTO_MODE THEN AutoControlLights(now, lx, 0) ELSE now
     IN /\ lux' = lx
        /\ status' = rec.status
        /\ relay' = rec.relay
  /\ hw_pc' = "sleep"
  /\ UNCHANGED <<manual_override, timers, hw_i, hw_target, ctl, main_pc>>

\* Every result of reading the four LDR pins.
AllPins == [0..(NumLights - 1) -> PinResults]

\* The lights as earlier requests, long expired, may have left them: any
\* of them on or off, no override, the hardware loop about to start.
InitTick ==
  /\ manual_override = [k \in Lights |-> FALSE]
  /\ status \in [Lights -> {"ON", "OFF"}]
  /\ relay = [k \in Lights |-> RelayLevel(status[k])]
  /\ lux = [k \in Lights |-> IF k - 1 = FAILED_INDEX THEN LUX_FAILED ELSE LUX_BRIGHT]
  /\ timers = <<>>
  /\ hw_pc = "read" /\ hw_i = 0 /\ hw_target = "NONE"
  /\ ctl_pc = [r \in Reqs |-> "idle"]
  /\ ctl_light = [r \in Reqs |-> 0]
  /\ ctl_action = [r \in Reqs |-> "none"]
  /\ answered = {}
  /\ main_pc = "serve"

NextTick ==
  \/ \E pins \in AllPins : HardwarePass(pins)
  \/ HwWake

\* The hardware loop alone, pass after pass.
SpecTick == InitTick /\ [][NextTick]_vars

\* C14: a pass of the hardware loop with no override set gives every light
\* with a dark or bright reading the status the decision table gives for
\* that light's own reading and earlier status, and leaves a light with a
\* failed reading as it was; readings dark, bright, dark, failed on lights
\* off, on, on, off give on, off, on, off.
C14_TickPerLight ==
  [][(hw_pc = "read" /\ hw_pc' = "sleep" /\ \A k \in Lights : ~manual_override[k])
       => /\ \A k \in Lights :
               status'[k] = IF lux'[k] = LUX_FAILED THEN status[k]
                            ELSE AfterDecision(Reference(lux'[k], status[k]), status[k])
          /\ \A k \in Lights : relay'[k] = RelayLevel(status'[k])
          /\ (/\ lux' = <<LUX_DARK, LUX_BRIGHT, LUX_DARK, LUX_FAILED>>
              /\ status = <<"OFF", "ON", "ON", "OFF">>)
               => status' = <<"ON", "OFF", "ON", "OFF">>]_vars

\* The pass on dark, bright, dark, failed is over, the lights on, off, on,
\* off.
C14_Witness ==
  /\ hw_pc = "sleep"
  /\ lux = <<LUX_DARK, LUX_BRIGHT, LUX_DARK, LUX_FAILED>>
  /\ status = <<"ON", "OFF", "ON", "OFF">>
  /\ relay = <<"HIGH", "LOW", "HIGH", "LOW">>

\* Request r has passed the validation and is being carried out.
Handled(r) == ctl_pc[r] \in {"override", "spawn", "gpio", "status", "respond"}

\* Request r enters or leaves the place pc in this step.
Passes(r, pc) == ctl_pc'[r] # ctl_pc[r] /\ pc \in {ctl_pc[r], ctl_pc'[r]}

\* C15: a request whose light_id is outside 1..4 can only be answered with
\* the invalid-light_id error: it is never carried out, and receiving it
\* and answering it change no override flag, status, relay pin or
\* clear_override thread.
C15_UnknownLightRejected ==
  /\ [](\A r \in Reqs : Handled(r) => ctl_light[r] \in Lights)
  /\ [](\A r \in Reqs, light_id \in LightIds \ Lights, action \in Actions :
          ~ENABLED (Receive(r, light_id, action) /\ ctl_pc'[r] # "reject_id"))
  /\ [][\A r \in Reqs :
          Passes(r, "reject_id")
            => /\ UNCHANGED <<manual_override, status, relay, timers>>
               /\ ctl_pc[r] = "reject_id" => ctl_pc'[r] = "idle"]_vars

\* A request with an unknown light_id is being refused while light 1 is on
\* under a running override.
C15_Witness ==
  /\ \E r \in Reqs : ctl_pc[r] = "reject_id"
  /\ manual_override[1] /\ status[1] = "ON" /\ TimersOn(1) # {}

\* C16: a request for a light in 1..4 whose action is neither on nor off
\* can only be answered with the invalid-action error: it is never carried
\* out, and receiving it and answering it change no override flag, status,
\* relay pin or clear_override thread.
C16_InvalidActionRejected ==
  /\ [](\A r \in Reqs : Handled(r) => ctl_action[r] \in {"on", "off"})
  /\ [](\A r \in Reqs, light_id \in LightIds \cap Lights, action \in Actions \ {"on", "off"} :
          ~ENABLED (Receive(r, light_id, action) /\ ctl_pc'[r] # "reject_action"))
  /\ [][\A r \in Reqs :
          Passes(r, "reject_action")
            => /\ UNCHANGED <<manual_override, status, relay, timers>>
               /\ ctl_pc[r] = "reject_action" => ctl_pc'[r] = "idle"]_vars

\* A request with an unknown action is being refused while light 4 is on
\* under a running override.
C16_Witness ==
  /\ \E r \in Reqs : ctl_pc[r] = "reject_action"
  /\ manual_override[4] /\ status[4] = "ON" /\ TimersOn(4) # {}

\* C17: the new_status a successful request returns is the status the
\* request asked for.
C17_ReturnsRequested ==
  [][\A r \in Reqs : Returns(r) => NewStatus(r) = ActionStatus(ctl_action[r])]_vars

\* ----------------------------------------------------------------- progress
\* The LDR pins in steady daylight.
DayPins == [i \in 0..(NumLights - 1) |-> "HIGH"]

\* A step of the hardware thread.
HwStep ==
  \/ UpdateSensors(DayPins)
  \/ AutoCheck
  \/ AutoDecide
  \/ AutoGpio
  \/ AutoStatus
  \/ HwWake

\* A step of the thread handling request r, once the request is there.
CtlStep(r) ==
  \/ Reject(r)
  \/ SetOverride(r)
  \/ StartTimer(r)
  \/ CtlGpio(r)
  \/ CtlStatus(r)
  \/ Respond(r)

\* The requests of one client: for light 1, or for a light that does not
\* exist.
LiveLightIds == {1, 5}

\* A request arrives (one at a time, as in SpecSeq).
Arrives ==
  \E r \in Reqs, light_id \in LiveLightIds, action \in Actions :
    ReceiveSeq(r, light_id, action)

\* Every thread that can run does run in the end, a sleep that is over
\* returns, and time passes.
Fairness ==
  /\ WF_vars(HwStep)
  /\ \A r \in Reqs : WF_vars(CtlStep(r))
  /\ \A n \in 1..MaxTimers : WF_vars(ClearOverride(n))
  /\ SF_vars(Advance)

NextLive ==
  \/ HwStep
  \/ Arrives
  \/ \E r \in Reqs : CtlStep(r)
  \/ \E n \in 1..MaxTimers : ClearOverride(n)
  \/ Advance

\* The threads in daylight, serving one client, under a scheduler that
\* starves none of them.
SpecLive == Init /\ [][NextLive]_vars /\ Fairness

\* C18: a light whose manual override is set has a clear_override thread
\* still to write its flag (running, or about to be started by the request
\* that set it); and unless requests keep arriving for ever, in the end no
\* light is overridden any more.
C18_OverrideEnds ==
  /\ [](\A k \in Lights :
          manual_override[k]
            => \/ TimersOn(k) # {}
               \/ \E r \in Reqs : ctl_light[r] = k /\ ctl_pc[r] = "spawn")
  /\ ([]<><<Arrives>>_vars \/ <>[](\A k \in Lights : ~manual_override[k]))

\* Light 1 has been switched by request, every override has run out and
\* the hardware loop has switched the light off again.
C18_Witness ==
  /\ answered = {1}
  /\ status[1] = "OFF" /\ hw_pc = "check" /\ hw_i = 1 /\ relay[1] = "LOW"
  /\ timers = <<>>
  /\ \A r \in Reqs : ctl_pc[r] = "idle"
  /\ \A k \in Lights : ~manual_override[k]

\* ------------------------------------------------------ failing GPIO.output
\* GPIO.output raises inside turn_light_on / turn_light_off called from
\* auto_control_lights: nothing catches the exception in hardware_loop,
\* and the hardware thread ends.
AutoGpioFail ==
  /\ hw_pc = "gpio"
  /\ hw_pc' = "dead"
  /\ hw_i' = 0
  /\ hw_target' = "NONE"
  /\ UNCHANGED <<store, timers, ctl, main_pc>>

\* GPIO.output raises inside turn_light_on / turn_light_off called from
\* control_light: the status store is not reached, the except clause takes
\* over.
CtlGpioFail(r) ==
  /\ ctl_pc[r] = "gpio"
  /\ ctl_pc' = [ctl_pc EXCEPT ![r] = "error"]
  /\ UNCHANGED <<store, timers, hw, ctl_light, ctl_action, answered, main_pc>>

\* The 500 answer of the except clause.
RespondError(r) ==
  /\ ctl_pc[r] = "error"
  /\ CtlReturn(r)
  /\ UNCHANGED <<store, timers, hw, answered, main_pc>>

NextFault ==
  \/ NextSeq
  \/ AutoGpioFail
  \/ \E r \in Reqs : CtlGpioFail(r)
  \/ \E r \in Reqs : RespondError(r)

\* The threads of SpecSeq on hardware whose relay writes may fail.
SpecFault == Init /\ [][NextFault]_vars

\* C19: when a request whose relay write failed is answered, the status of
\* its light is the one the request asked for.
C19_FailedWriteKeepsIntent ==
  [][\A r \in Reqs :
       (ctl_pc[r] = "error" /\ ctl_pc'[r] = "idle")
         => status'[ctl_light[r]] = ActionStatus(ctl_action[r])]_vars

\* C20: the hardware thread is never ended by a failure inside a pass.
C20_SamplerSurvives == hw_pc # "dead"

\* C21: read_ldr always returns a value: the failed reading for a read that
\* raised and for an index without a sensor, dark or bright otherwise; and
\* a pass of the hardware loop on any pin results goes through to its
\* sleep with the failed reading stored for every light whose read raised.
C21_ReadNeverRaises ==
  /\ [](\A i \in (0 - 1)..NumLights, pin \in PinResults :
          /\ ReadLdr(i, pin) \in {LUX_DARK, LUX_BRIGHT, LUX_FAILED}
          /\ (pin = "ERR" \/ i < 0 \/ i >= NumLights) => ReadLdr(i, pin) = LUX_FAILED)
  /\ [](hw_pc = "read"
          => \A pins \in AllPins :
               /\ ENABLED HardwarePass(pins)
               /\ ~ENABLED (/\ HardwarePass(pins)
                            /\ \E k \in Lights : pins[k - 1] = "ERR" /\ lux'[k] # LUX_FAILED))
  /\ [][(hw_pc = "read" /\ hw_pc' # "read") => hw_pc' = "sleep"]_vars

\* A pass in which the reads of lights 1 and 3 raised is over: both carry
\* the failed reading, light 2 was read dark and is on.
C21_Witness ==
  /\ hw_pc = "sleep"
  /\ lux = <<LUX_FAILED, LUX_DARK, LUX_FAILED, LUX_FAILED>>
  /\ status[2] = "ON"

\* The three dictionaries keep the keys light1 .. light4.
KeysKept ==
  /\ DOMAIN manual_override' = Lights
  /\ DOMAIN status' = Lights
  /\ DOMAIN lux' = Lights
  /\ DOMAIN relay' = Lights

\* What is common to both readings of the initial store: lights 1..4, all
\* OFF with their relay pins LOW, no override, light 4 with the failed
\* reading.
StartsOff ==
  /\ DOMAIN status = Lights /\ DOMAIN manual_override = Lights /\ DOMAIN lux = Lights
  /\ \A k \in Lights : status[k] = "OFF" /\ relay[k] = "LOW" /\ ~manual_override[k]
  /\ lux[FAILED_INDEX + 1] = LUX_FAILED

\* C23, as stated: the store starts with lights 1..4 OFF, not overridden,
\* light 4 with the failed reading and lights 1..3 with the dark reading.
C23_InitialStoreDark ==
  /\ StartsOff
  /\ \A k \in Lights \ {FAILED_INDEX + 1} : lux[k] = LUX_DARK
  /\ [][KeysKept]_vars

\* C23, amended: the store starts with lights 1..4 OFF, not overridden,
\* light 4 with the failed reading and lights 1..3 with the bright reading
\* (lux 100).
C23_InitialStoreBright ==
  /\ StartsOff
  /\ \A k \in Lights \ {FAILED_INDEX + 1} : lux[k] = LUX_BRIGHT
  /\ [][KeysKept]_vars

\* The store as the module leaves it, before the first pass and the first
\* request.
C23_Witness ==
  /\ hw_pc = "read" /\ answered = {} /\ timers = <<>>
  /\ lux = <<LUX_BRIGHT, LUX_BRIGHT, LUX_BRIGHT, LUX_FAILED>>
  /\ status = <<"OFF", "OFF", "OFF", "OFF">>
  /\ \A r \in Reqs : ctl_pc[r] = "idle"

\* C24: light 4 carries the failed reading in every reachable state.
C24_Light4AlwaysFaulted == lux[FAILED_INDEX + 1] = LUX_FAILED

\* Light 4 has been switched on by request, its override has run out and
\* passes of the hardware loop have read the sensors since.
C24_Witness ==
  /\ lux[4] = LUX_FAILED /\ lux[1] = LUX_DARK
  /\ 4 \in answered /\ status[4] = "ON"
  /\ ~manual_override[4] /\ TimersOn(4) = {}
  /\ hw_pc = "sleep"

\* A thread handling a request for light k writes the relay or the status
\* in this step.
SubmitWrites(k) ==
  \E r \in Reqs : /\ ctl_light[r] = k
                  /\ ctl_pc[r] \in {"gpio", "status"}
                  /\ ctl_pc'[r] # ctl_pc[r]

\* C25: the relay pin and the status of a light whose reading is the failed
\* one are written by request threads only, never by the hardware loop,
\* overridden or not.
C25_FaultedUntouchedByTick ==
  [][\A k \in Lights :
       (lux[k] = LUX_FAILED /\ (status'[k] # status[k] \/ relay'[k] # relay[k]))
         => SubmitWrites(k)]_vars

\* The read of light 1 failed; the light, on since a request whose override
\* has run out, has been passed by the hardware loop and is still on.
C25_Witness ==
  /\ lux[1] = LUX_FAILED /\ status[1] = "ON" /\ relay[1] = "HIGH"
  /\ 1 \in answered /\ ~manual_override[1] /\ TimersOn(1) = {}
  /\ hw_pc = "check" /\ hw_i = 1

\* The hardware thread moves on in this step.
HwMoves == <<hw_pc, hw_i>>' # <<hw_pc, hw_i>>

\* The readings are stored in one go before the loop over the lights
\* starts, and stay as they are while it runs.
ReadThenDecide ==
  /\ [][(hw_pc \in {"check", "load", "gpio", "status"}) => (lux' = lux)]_vars
  /\ [][(hw_pc = "read" /\ HwMoves) => (hw_pc' = "check" /\ hw_i' = 0)]_vars

\* C26, as stated: the readings of a pass are all stored before the loop
\* over the lights starts; the loop then reaches the if/elif for every
\* light that is not overridden when it is examined, and for no light that
\* is.
C26_PolicyForEveryInactive ==
  /\ ReadThenDecide
  /\ [][\A k \in Lights :
          (hw_pc = "check" /\ hw_i + 1 = k /\ HwMoves)
            => IF manual_override[k]
               THEN hw_pc' # "load"
               ELSE hw_pc' = "load" /\ hw_i' = hw_i]_vars

\* C26, amended: the readings of a pass are all stored before the loop over
\* the lights starts; the loop then reaches the if/elif for every light
\* other than light 4 that is not overridden when it is examined, and
\* neither for an overridden light nor for light 4.
C26_PolicyForInactiveButFour ==
  /\ ReadThenDecide
  /\ [][\A k \in Lights :
          (hw_pc = "check" /\ hw_i + 1 = k /\ HwMoves)
            => IF manual_override[k] \/ k = FAILED_INDEX + 1
               THEN hw_pc' # "load"
               ELSE hw_pc' = "load" /\ hw_i' = hw_i]_vars

\* Light 1, dark and off but overridden, has been passed over by the loop,
\* which is now at light 2.
C26_Witness ==
  /\ hw_pc = "check" /\ hw_i = 1
  /\ manual_override[1] /\ lux[1] = LUX_DARK /\ status[1] = "OFF"
  /\ \A r \in Reqs : ctl_pc[r] = "idle"

\* C27: a step of a request for light i leaves the readings as they are and
\* changes neither status, relay pin nor override of any other light; a
\* clear_override thread of light i that ends changes nothing but the
\* override of light i.
C27_FrameOfSubmitAndExpiry ==
  /\ [][\A r \in Reqs :
          (Handled(r) /\ ctl_pc'[r] # ctl_pc[r])
            => /\ lux' = lux
               /\ \A k \in Lights \ {ctl_light[r]} :
                    /\ status'[k] = status[k]
                    /\ relay'[k] = relay[k]
                    /\ manual_override'[k] = manual_override[k]]_vars
  /\ [][\A n \in 1..Len(timers) :
          Ends(n)
            => /\ status' = status /\ lux' = lux /\ relay' = relay
               /\ \A k \in Lights \ {timers[n].light} :
                    manual_override'[k] = manual_override[k]]_vars

\* Light 4 was switched on by request; later light 1 was switched off by
\* request, and light 4 is still on.
C27_Witness ==
  /\ answered = {1, 4}
  /\ status[4] = "ON" /\ relay[4] = "HIGH" /\ ~manual_override[4]
  /\ status[1] = "OFF" /\ manual_override[1] /\ TimersOn(1) # {}
  /\ \A r \in Reqs : ctl_pc[r] = "idle"

\* C28: a request that is answered with a failure has left the overrides,
\* the relay pins, the statuses and the running clear_override threads as
\* it found them: the 400 answers are given before anything is written,
\* and a request that has set the override and started its clear_override
\* thread does not end in the 500 answer.
C28_FailureChangesNothing ==
  /\ [][\A r \in Reqs :
          (Passes(r, "reject_id") \/ Passes(r, "reject_action"))
            => UNCHANGED <<manual_override, status, relay, timers>>]_vars
  /\ [][\A r \in Reqs :
          ctl_pc[r] = "gpio" => ctl_pc'[r] \in {"gpio", "status"}]_vars

\* ----------------------------------------------------------------- shutdown
\* SIGINT / SIGTERM arrives: handle_sigterm starts and sets stop_event.
Signal ==
  /\ main_pc = "serve"
  /\ main_pc' = "stop_set"
  /\ UNCHANGED <<store, timers, hw, ctl>>

\* handle_sigterm: GPIO.output(pin, GPIO.LOW) for every pin of RELAY_PINS.
\* lights_data is not written.
ShutdownPins ==
  /\ main_pc = "stop_set"
  /\ main_pc' = "relays_low"
  /\ relay' = [k \in Lights |-> "LOW"]
  /\ UNCHANGED <<manual_override, status, lux, timers, hw, ctl>>

\* handle_sigterm: GPIO.cleanup().
Cleanup ==
  /\ main_pc = "relays_low"
  /\ main_pc' = "cleaned"
  /\ UNCHANGED <<store, timers, hw, ctl>>

\* handle_sigterm: sys.exit(0).  The hardware thread is a daemon thread and
\* nothing joins it: unless it has returned or died already, it ends with
\* the process wherever it is.
Exit ==
  /\ main_pc = "cleaned"
  /\ main_pc' = "exited"
  /\ hw_pc' = IF hw_pc \in {"stopped", "dead"} THEN hw_pc ELSE "killed"
  /\ UNCHANGED <<store, timers, hw_i, hw_target, ctl>>

\* The process is running.
Alive == main_pc # "exited"

\* After GPIO.cleanup() the channels are no longer set up: GPIO.input and
\* GPIO.output raise.
Cleaned == main_pc = "cleaned"

\* What the LDR pins do when read while the program shuts down.
StopPins == IF Cleaned THEN {[i \in 0..(NumLights - 1) |-> "ERR"]} ELSE Pins

NextStop ==
  \/ Alive /\ \E pins \in StopPins : UpdateSensors(pins)
  \/ Alive /\ AutoCheck
  \/ Alive /\ AutoDecide
  \/ Alive /\ ~Cleaned /\ AutoGpio
  \/ Cleaned /\ AutoGpioFail
  \/ Alive /\ AutoStatus
  \/ Alive /\ HwWake
  \/ Alive /\ Arrives
  \/ Alive /\ \E r \in Reqs : Reject(r)
  \/ Alive /\ \E r \in Reqs : SetOverride(r)
  \/ Alive /\ \E r \in Reqs : StartTimer(r)
  \/ Alive /\ ~Cleaned /\ \E r \in Reqs : CtlGpio(r)
  \/ Cleaned /\ \E r \in Reqs : CtlGpioFail(r)
  \/ Alive /\ \E r \in Reqs : CtlStatus(r)
  \/ Alive /\ \E r \in Reqs : Respond(r)
  \/ Alive /\ \E r \in Reqs : RespondError(r)
  \/ Alive /\ \E n \in 1..MaxTimers : ClearOverride(n)
  \/ Alive /\ Advance
  \/ Signal
  \/ ShutdownPins
  \/ Cleanup
  \/ Exit

\* The program from its start to the end of the process, with a signal
\* that may arrive at any time.
SpecStop == Init /\ [][NextStop]_vars

\* C22: once stop_event is set the hardware thread starts no new pass, and
\* a read of the sensors that is in progress runs to its end.
C22_StopsBetweenCycles ==
  /\ [][(stop_event /\ hw_pc = "sleep") => hw_pc' # "read"]_vars
  /\ [][hw_pc = "read" => hw_pc' \in {"read", "check"}]_vars

\* C29: once handle_sigterm has driven the relay pins LOW, every relay pin
\* is LOW for good.
C29_RelaysStayOff ==
  main_pc \in {"relays_low", "cleaned", "exited"}
    => \A k \in Lights : relay[k] = "LOW"

\* ------------------------------------------ the single-file script (pi.py)
\* The single-file script keeps relay_state (here: status) and lux per
\* light and has neither overrides nor a failed sensor.  Its handlers are
\* taken as one step each.

\* lights_data all "OFF" with lux 0, every relay pin driven HIGH by the
\* GPIO setup.
CombinedInit ==
  /\ manual_override = [k \in Lights |-> FALSE]
  /\ status = [k \in Lights |-> "OFF"]
  /\ lux = [k \in Lights |-> LUX_DARK]
  /\ relay = [k \in Lights |-> "HIGH"]
  /\ timers = <<>>
  /\ hw_pc = "read" /\ hw_i = 0 /\ hw_target = "NONE"
  /\ ctl_pc = [r \in Reqs |-> "idle"]
  /\ ctl_light = [r \in Reqs |-> 0]
  /\ ctl_action = [r \in Reqs |-> "none"]
  /\ answered = {}
  /\ main_pc = "serve"

\* control: the level written for an action, GPIO.LOW for "on" and
\* GPIO.HIGH for "off".
ControlLevel(st) == IF st = "ON" THEN "LOW" ELSE "HIGH"

\* auto_control_lights: the level written with a relay_state, GPIO.HIGH
\* with "ON" and GPIO.LOW with "OFF".
AutoLevel(st) == IF st = "ON" THEN "HIGH" ELSE "LOW"

\* read_ldr: 100 for a HIGH pin, 0 otherwise.
CombinedReadLdr(ldr_index, pin) ==
  IF 0 <= ldr_index /\ ldr_index < NumLights
  THEN IF pin = "HIGH" THEN LUX_BRIGHT ELSE LUX_DARK
  ELSE 0

\* control: a bad index or a bad action is answered 400 with nothing
\* written; "on" / "off" write the pin and then relay_state.
CombinedControl(light_id, action) ==
  /\ IF light_id - 1 < 0 \/ light_id - 1 >= NumLights \/ action \notin {"on", "off"}
     THEN UNCHANGED <<status, relay, answered>>
     ELSE /\ relay' = [relay EXCEPT ![light_id] = ControlLevel(ActionStatus(action))]
          /\ status' = [status EXCEPT ![light_id] = ActionStatus(action)]
          /\ answered' = answered \cup {light_id}
  /\ UNCHANGED <<manual_override, lux, timers, hw, ctl_pc, ctl_light, ctl_action, main_pc>>

\* One pass of sensor_loop: the four readings are stored, then, with
\* auto_mode, auto_control_lights runs its if/elif for each light.
CombinedSensorPass(auto_mode, pins) ==
  LET lx == [k \in Lights |-> CombinedReadLdr(k - 1, pins[k - 1])]
      to == [k \in Lights |-> IF auto_mode THEN Decide(lx[k], status[k]) ELSE "NONE"]
  IN /\ lux' = lx
     /\ status' = [k \in Lights |-> IF to[k] = "NONE" THEN status[k] ELSE to[k]]
     /\ relay' = [k \in Lights |-> IF to[k] = "NONE" THEN relay[k] ELSE AutoLevel(to[k])]
     /\ UNCHANGED <<manual_override, timers, hw, ctl, main_pc>>

\* What the four LDR pins read.
CombinedPins == [0..(NumLights - 1) -> {"HIGH", "LOW"}]

NextCombinedAuto ==
  \/ \E light_id \in LightIds, action \in Actions : CombinedControl(light_id, action)
  \/ \E pins \in CombinedPins : CombinedSensorPass(TRUE, pins)

\* The single-file script with AUTO_MODE set to True.
SpecCombinedAuto == CombinedInit /\ [][NextCombinedAuto]_vars

\* C30: the level of a relay pin goes with the relay_state of its light,
\* HIGH with "OFF" as the GPIO setup leaves them and LOW with "ON",
\* whichever operation wrote them last.
C30_OnePolarity ==
  \A k \in Lights : relay[k] = (IF status[k] = "ON" THEN "LOW" ELSE "HIGH")

\* AUTO_MODE switched on.
CombinedAutoModeOn == TRUE

\* AUTO_MODE of the single-file script.
COMBINED_AUTO_MODE == FALSE

NextCombined ==
  \/ \E light_id \in LightIds, action \in Actions : CombinedControl(light_id, action)
  \/ \E pins \in CombinedPins : CombinedSensorPass(COMBINED_AUTO_MODE, pins)

\* The single-file script as configured.
SpecCombined == CombinedInit /\ [][NextCombined]_vars

\* C31: a pass of sensor_loop leaves every relay_state and every relay pin
\* as it is; a relay_state changes only in a control request for its
\* light, and such a request leaves the relay_state it asks for.
C31_OnlyControlSwitches ==
  /\ [][\A pins \in CombinedPins :
          CombinedSensorPass(COMBINED_AUTO_MODE, pins)
            => (status' = status /\ relay' = relay)]_vars
  /\ [][\A k \in Lights :
          (status'[k] # status[k] \/ relay'[k] # relay[k])
            => \E action \in {"on", "off"} : CombinedControl(k, action)]_vars
  /\ [][\A k \in Lights, action \in {"on", "off"} :
          CombinedControl(k, action) => status'[k] = ActionStatus(action)]_vars

\* Light 1 has been switched on by request and is on in daylight, which a
\* pass of sensor_loop has read; light 2, never asked for, is off.
C31_Witness ==
  /\ answered = {1}
  /\ status[1] = "ON" /\ relay[1] = "LOW" /\ lux[1] = LUX_BRIGHT
  /\ status[2] = "OFF" /\ relay[2] = "HIGH" /\ lux[2] = LUX_BRIGHT

====
